---- MODULE Spec2Model ----
(***************************************************************************)
(* RaychelLogger: the process-wide logger state of Logger.cpp and the      *)
(* entry points of Logger.h, as a state machine.  Every thread runs one    *)
(* library call at a time; a call is a sequence of steps, one step per     *)
(* statement that reads or writes the shared state.                        *)
(***************************************************************************)
EXTENDS Integers, Sequences, FiniteSets, TLC

(* enum class LogLevel : size_t { debug, info, warn, error, critical, fatal, log } *)
debug == 0
info == 1
warn == 2
error == 3
critical == 4
fatal == 5
log == 6
Levels == debug..log

(* Bounds of the model. *)
MaxArgs == 2
MaxLines == 2
MaxHeld == 2

(* The instants, in nanoseconds, the model's clock can show. *)
ClockValues == {0, 1500, 2000000000}

(* The timer labels and the duration types T the callers use. *)
Labels == {"a", "b"}
Units == {"ns", "us", "ms", "s", "h"}

(* The levels and prefixes the callers of logDuration pass. *)
DurationLevels == {info, log}
Prefixes == {"", "took "}

Threads == {"t1", "t2"}
Main == "t1"
NoThread == "none"

reset_col == "ESC[0m"

DefaultLabels ==
    <<"DEBUG", "INFO", "WARNING", "ERROR", "CRITICAL", "FATAL", "OUT">>

DefaultCols ==
    <<"ESC[36m", "ESC[32m", "ESC[33m", "ESC[31m", "ESC[1;31m", "ESC[4;1;31m", "ESC[34m">>

VARIABLES
    currentLevel,   \* static LogLevel currentLevel
    minLogLevel,    \* static LogLevel minLogLevel
    doColor,        \* static bool doColor
    outStream,      \* the buffer outStream writes to: "cout", "file" or "user"
    logFile,        \* static std::ofstream logFile: "closed" or the path it has open
    mtx,            \* static std::recursive_mutex mtx: its owner and hold count
    mtx_engaged,    \* static bool mtx_engaged
    timePoints,     \* static std::unordered_map<std::string, timePoint_t>
    levelLabels,    \* static std::array<std::string_view, 7> levelLabels
    cols,           \* static std::array<std::string_view, 7> cols
    clock,          \* the last value high_resolution_clock::now() returned
    pc,             \* per thread: the statement it is at
    lc,             \* per thread: the frame of details::logConcurrent
    tm,             \* per thread: the frame of details::endTimer / getTimer
    op,             \* per thread: the outermost call and its arguments
    ret,            \* per thread: the value the outermost call returns
    lastOn,         \* per timer label: the last registry operation on it
    passed,         \* how many calls passed the gate since the sink was read
    out             \* what was written to the sink and not yet read

shared == <<currentLevel, minLogLevel, doColor, outStream, logFile, mtx,
            mtx_engaged, timePoints, levelLabels, cols, clock>>
locals == <<pc, lc, tm, op, ret>>
vars == <<currentLevel, minLogLevel, doColor, outStream, logFile, mtx,
          mtx_engaged, timePoints, levelLabels, cols, clock,
          pc, lc, tm, op, ret, lastOn, passed, out>>

NoLc == [level |-> debug, withLabel |-> FALSE, vals |-> <<>>, i |-> 0,
         c |-> FALSE, min |-> debug, id |-> 0, what |-> "none",
         back |-> "idle"]
NoTm == [label |-> "", consume |-> FALSE, found |-> FALSE, dur |-> 0,
         prev |-> "none", back |-> "idle"]
NoOp == [name |-> "none"]
NoRet == [kind |-> "none"]

Init ==
    /\ currentLevel = info
    /\ minLogLevel = info
    /\ doColor = TRUE
    /\ outStream = "cout"
    /\ logFile = "closed"
    /\ mtx = [owner |-> NoThread, count |-> 0]
    /\ mtx_engaged = FALSE
    /\ timePoints = [l \in {} |-> 0]
    /\ levelLabels = [l \in Levels |-> DefaultLabels[l + 1]]
    /\ cols = [l \in Levels |-> DefaultCols[l + 1]]
    /\ clock = 0
    /\ pc = [t \in Threads |-> "idle"]
    /\ lc = [t \in Threads |-> NoLc]
    /\ tm = [t \in Threads |-> NoTm]
    /\ op = [t \in Threads |-> NoOp]
    /\ ret = [t \in Threads |-> NoRet]
    /\ lastOn = [l \in Labels |-> "none"]
    /\ passed = 0
    /\ out = <<>>

----------------------------------------------------------------------------
(* Logger.cpp: the helpers of namespace Logger and Logger::details.        *)

getLogLabel_default == DefaultLabels[currentLevel + 1]

getLogLabel == levelLabels[currentLevel]

getLogColor == IF doColor THEN cols[currentLevel] ELSE ""

requiredLevel == minLogLevel

setLogLevel_keep(level) == currentLevel' = currentLevel

setLogLevel(level) == currentLevel' = level

(* mtx.lock() of a recursive mutex: blocks while another thread owns it. *)
MtxLocked(t) == [owner |-> t, count |-> mtx.count + 1]

(* mtx.unlock(): one hold less; the mutex is free when none is left. *)
MtxUnlocked(t) ==
    IF mtx.owner = t /\ mtx.count > 1
    THEN [mtx EXCEPT !.count = @ - 1]
    ELSE [owner |-> NoThread, count |-> 0]

lockStream_nonblocking(t) ==
    /\ mtx' = MtxLocked(t)
    /\ mtx_engaged' = TRUE

lockStream(t) ==
    /\ mtx.owner \in {NoThread, t}
    /\ mtx' = MtxLocked(t)
    /\ mtx_engaged' = TRUE

unlockStream_release(t) ==
    IF mtx_engaged
    THEN /\ mtx_engaged' = FALSE
         /\ mtx' = [owner |-> NoThread, count |-> 0]
    ELSE UNCHANGED <<mtx, mtx_engaged>>

unlockStream(t) ==
    IF mtx_engaged
    THEN /\ mtx_engaged' = FALSE
         /\ mtx' = MtxUnlocked(t)
    ELSE UNCHANGED <<mtx, mtx_engaged>>

(* One piece of output: what one call of print / printWithoutLabel writes   *)
(* (the escape before the text, the text, the escape after it), the stream *)
(* buffer it went to, and the call of logConcurrent that wrote it.         *)
Piece(t, kind, pre, txt, post) ==
    [th |-> t, id |-> lc[t].id, what |-> lc[t].what, lvl |-> lc[t].level,
     min |-> lc[t].min, n |-> Len(lc[t].vals), kind |-> kind, pre |-> pre,
     txt |-> txt, post |-> post, tgt |-> outStream]

----------------------------------------------------------------------------
(* Logger.h: details::logConcurrent and the printing it drives.            *)

gate_noExemption(level, required) == level < required

gate_offByOne(level, required) == level + 1 < required /\ level # fatal

gate_inclusive(level, required) == level <= required /\ level # fatal

(* The filtering gate of logConcurrent: TRUE when the call is dropped. *)
gate(level, required) == level < required /\ level # fatal

(* Enter logConcurrent(level, log_with_label, vals...) and come back at `back`. *)
enter_logConcurrent(t, level, withLabel, vals, what, back) ==
    /\ lc' = [lc EXCEPT ![t] = [level |-> level, withLabel |-> withLabel,
                                vals |-> vals, i |-> 0, c |-> FALSE,
                                min |-> debug, id |-> 0,
                                what |-> what, back |-> back]]
    /\ pc' = [pc EXCEPT ![t] = "lc_lock"]

logConcurrent_lock_skip(t) ==
    /\ pc[t] = "lc_lock"
    /\ pc' = [pc EXCEPT ![t] = "lc_gate"]
    /\ UNCHANGED <<shared, lc, tm, op, ret, lastOn, passed, out>>

logConcurrent_lock(t) ==
    /\ pc[t] = "lc_lock"
    /\ lockStream(t)
    /\ pc' = [pc EXCEPT ![t] = "lc_gate"]
    /\ UNCHANGED <<currentLevel, minLogLevel, doColor, outStream, logFile,
                   timePoints, levelLabels, cols, clock, lc, tm, op, ret,
                   lastOn, passed, out>>

logConcurrent_gate_levelFirst(t) ==
    /\ pc[t] = "lc_gate"
    /\ setLogLevel(lc[t].level)
    /\ IF gate(lc[t].level, requiredLevel)
       THEN /\ lc' = [lc EXCEPT ![t].min = requiredLevel]
            /\ pc' = [pc EXCEPT ![t] = "lc_exit"]
            /\ UNCHANGED passed
       ELSE /\ lc' = [lc EXCEPT ![t].min = requiredLevel,
                                ![t].id = passed + 1, ![t].i = 1]
            /\ passed' = passed + 1
            /\ pc' = [pc EXCEPT ![t] =
                        IF lc[t].withLabel THEN "print_if" ELSE "pwl_if"]
    /\ UNCHANGED <<minLogLevel, doColor, outStream, logFile, mtx, mtx_engaged,
                   timePoints, levelLabels, cols, clock, tm, op, ret,
                   lastOn, out>>

logConcurrent_gate(t) ==
    /\ pc[t] = "lc_gate"
    /\ IF gate(lc[t].level, requiredLevel)
       THEN /\ lc' = [lc EXCEPT ![t].min = requiredLevel]
            /\ pc' = [pc EXCEPT ![t] = "lc_exit"]
            /\ UNCHANGED <<currentLevel, passed>>
       ELSE /\ setLogLevel(lc[t].level)
            /\ lc' = [lc EXCEPT ![t].min = requiredLevel,
                                ![t].id = passed + 1, ![t].i = 1]
            /\ passed' = passed + 1
            /\ pc' = [pc EXCEPT ![t] =
                        IF lc[t].withLabel THEN "print_if" ELSE "pwl_if"]
    /\ UNCHANGED <<minLogLevel, doColor, outStream, logFile, mtx, mtx_engaged,
                   timePoints, levelLabels, cols, clock, tm, op, ret,
                   lastOn, out>>

(* print: `if (doColor)`. *)
print_if(t) ==
    /\ pc[t] = "print_if"
    /\ lc' = [lc EXCEPT ![t].c = doColor]
    /\ pc' = [pc EXCEPT ![t] = "print_write"]
    /\ UNCHANGED <<shared, tm, op, ret, lastOn, passed, out>>

(* print: the chain of writes of the "[LABEL] " decoration. *)
print_write(t) ==
    /\ pc[t] = "print_write"
    /\ out' = Append(out,
                IF lc[t].c
                THEN Piece(t, "label", getLogColor, "[" \o getLogLabel \o "] ", reset_col)
                ELSE Piece(t, "label", "", "[" \o getLogLabel \o "] ", ""))
    /\ pc' = [pc EXCEPT ![t] = "pwl_if"]
    /\ UNCHANGED <<shared, lc, tm, op, ret, lastOn, passed>>

printWithoutLabel_if_always(t) ==
    /\ pc[t] = "pwl_if"
    /\ lc' = [lc EXCEPT ![t].c = TRUE]
    /\ pc' = [pc EXCEPT ![t] = "pwl_write"]
    /\ UNCHANGED <<shared, tm, op, ret, lastOn, passed, out>>

(* printWithoutLabel: `if (doColor)`. *)
printWithoutLabel_if(t) ==
    /\ pc[t] = "pwl_if"
    /\ lc' = [lc EXCEPT ![t].c = doColor]
    /\ pc' = [pc EXCEPT ![t] = "pwl_write"]
    /\ UNCHANGED <<shared, tm, op, ret, lastOn, passed, out>>

(* printWithoutLabel: the chain of writes of one value. *)
printWithoutLabel_write(t) ==
    /\ pc[t] = "pwl_write"
    /\ out' = Append(out,
                IF lc[t].c
                THEN Piece(t, "value", getLogColor, lc[t].vals[lc[t].i], reset_col)
                ELSE Piece(t, "value", "", lc[t].vals[lc[t].i], ""))
    /\ lc' = [lc EXCEPT ![t].i = @ + 1]
    /\ pc' = [pc EXCEPT ![t] =
                IF lc[t].i = Len(lc[t].vals) THEN "lc_exit" ELSE "pwl_if"]
    /\ UNCHANGED <<shared, tm, op, ret, lastOn, passed>>

(* The scope of logConcurrent ends: unlock_mutex_on_exit runs unlockStream. *)
logConcurrent_exit(t) ==
    /\ pc[t] = "lc_exit"
    /\ unlockStream(t)
    /\ pc' = [pc EXCEPT ![t] = lc[t].back]
    /\ UNCHANGED <<currentLevel, minLogLevel, doColor, outStream, logFile,
                   timePoints, levelLabels, cols, clock, lc, tm, op, ret,
                   lastOn, passed, out>>

LogSteps(t) ==
    \/ logConcurrent_lock(t)
    \/ logConcurrent_gate(t)
    \/ print_if(t)
    \/ print_write(t)
    \/ printWithoutLabel_if(t)
    \/ printWithoutLabel_write(t)
    \/ logConcurrent_exit(t)

----------------------------------------------------------------------------
(* Logger.h / Logger.cpp: the entry points.                                *)

(* The values of a call: "v1", "v2", ... in argument order. *)
Args(n) == [k \in 1..n |-> "v" \o ToString(k)]

(* debug(...), info(...), warn(...), error(...), critical(...), fatal(...). *)
leveled(t, level, n) ==
    /\ pc[t] = "idle"
    /\ level \in debug..fatal
    /\ op' = [op EXCEPT ![t] = [name |-> "leveled", level |-> level]]
    /\ enter_logConcurrent(t, level, TRUE, Args(n), "user", "done")
    /\ UNCHANGED <<shared, tm, ret, lastOn, passed, out>>

(* log(args...): the unconditional entry point. *)
log_always(t, n) ==
    /\ pc[t] = "idle"
    /\ op' = [op EXCEPT ![t] = [name |-> "log", level |-> log]]
    /\ enter_logConcurrent(t, log, FALSE, Args(n), "user", "done")
    /\ UNCHANGED <<shared, tm, ret, lastOn, passed, out>>

setMinimumLogLevel_previous(t, lv) ==
    /\ pc[t] = "idle"
    /\ minLogLevel' = lv
    /\ op' = [op EXCEPT ![t] = [name |-> "setMinimumLogLevel", level |-> lv]]
    /\ ret' = [ret EXCEPT ![t] = [kind |-> "level", level |-> minLogLevel]]
    /\ pc' = [pc EXCEPT ![t] = "done"]
    /\ UNCHANGED <<currentLevel, doColor, outStream, logFile, mtx, mtx_engaged,
                   timePoints, levelLabels, cols, clock, lc, tm, lastOn, passed, out>>

setMinimumLogLevel(t, lv) ==
    /\ pc[t] = "idle"
    /\ minLogLevel' = lv
    /\ op' = [op EXCEPT ![t] = [name |-> "setMinimumLogLevel", level |-> lv]]
    /\ ret' = [ret EXCEPT ![t] = [kind |-> "level", level |-> lv]]
    /\ pc' = [pc EXCEPT ![t] = "done"]
    /\ UNCHANGED <<currentLevel, doColor, outStream, logFile, mtx, mtx_engaged,
                   timePoints, levelLabels, cols, clock, lc, tm, lastOn, passed, out>>

disableColor(t) ==
    /\ pc[t] = "idle"
    /\ doColor' = FALSE
    /\ UNCHANGED <<currentLevel, minLogLevel, outStream, logFile, mtx,
                   mtx_engaged, timePoints, levelLabels, cols, clock,
                   locals, lastOn, passed, out>>

enableColor(t) ==
    /\ pc[t] = "idle"
    /\ doColor' = TRUE
    /\ UNCHANGED <<currentLevel, minLogLevel, outStream, logFile, mtx,
                   mtx_engaged, timePoints, levelLabels, cols, clock,
                   locals, lastOn, passed, out>>

(* The outermost call returns to its caller. *)
Return(t) ==
    /\ pc[t] = "done"
    /\ pc' = [pc EXCEPT ![t] = "idle"]
    /\ lc' = [lc EXCEPT ![t] = NoLc]
    /\ tm' = [tm EXCEPT ![t] = NoTm]
    /\ op' = [op EXCEPT ![t] = NoOp]
    /\ ret' = [ret EXCEPT ![t] = NoRet]
    /\ UNCHANGED <<shared, lastOn, passed, out>>

----------------------------------------------------------------------------
(* Logger.cpp / Logger.h: the timer registry.                              *)

(* Integer division as C++ does it: the quotient is truncated towards zero. *)
TruncDiv(a, b) == IF a >= 0 THEN a \div b ELSE -((-a) \div b)

duration_cast_ceil(d, unit) ==
    LET up(a, b) == IF a % b = 0 THEN a \div b ELSE (a \div b) + 1
    IN  CASE unit = "ns" -> d
          [] unit = "us" -> up(d, 1000)
          [] unit = "ms" -> up(d, 1000000)
          [] unit = "s" -> up(d, 1000000000)
          [] unit = "h" -> up(up(d, 1000000000), 3600)

(* std::chrono::duration_cast<T> of a count of nanoseconds.  An hour is    *)
(* 3600 * 10^9 ns; dividing by 10^9 and then by 3600 truncates to the same *)
(* quotient and stays within the integers TLC has.                         *)
duration_cast(d, unit) ==
    CASE unit = "ns" -> d
      [] unit = "us" -> TruncDiv(d, 1000)
      [] unit = "ms" -> TruncDiv(d, 1000000)
      [] unit = "s" -> TruncDiv(d, 1000000000)
      [] unit = "h" -> TruncDiv(TruncDiv(d, 1000000000), 3600)

suffix_for_ms(unit) == "ms"

suffix_for(unit) == unit

(* high_resolution_clock::now(): an instant not before the last one shown. *)
now(tp) == tp \in ClockValues /\ tp >= clock /\ clock' = tp

insert_only(label, tp) ==
    IF label \in DOMAIN timePoints THEN timePoints
    ELSE [l \in DOMAIN timePoints \cup {label} |->
            IF l = label THEN tp ELSE timePoints[l]]

insert_or_assign(label, tp) ==
    [l \in DOMAIN timePoints \cup {label} |->
        IF l = label THEN tp ELSE timePoints[l]]

extract_keep(label) == timePoints

(* timePoints.extract(label): the registry without the entry of label. *)
extract(label) == [l \in DOMAIN timePoints \ {label} |-> timePoints[l]]

startTimer(t, label) ==
    /\ pc[t] = "idle"
    /\ op' = [op EXCEPT ![t] = [name |-> "startTimer", label |-> label]]
    /\ pc' = [pc EXCEPT ![t] = "st_lock"]
    /\ UNCHANGED <<shared, lc, tm, ret, lastOn, passed, out>>

startTimer_lock(t) ==
    /\ pc[t] = "st_lock"
    /\ lockStream(t)
    /\ pc' = [pc EXCEPT ![t] = "st_insert"]
    /\ UNCHANGED <<currentLevel, minLogLevel, doColor, outStream, logFile,
                   timePoints, levelLabels, cols, clock, lc, tm, op, ret,
                   lastOn, passed, out>>

startTimer_insert(t) ==
    /\ pc[t] = "st_insert"
    /\ \E tp \in ClockValues :
        /\ now(tp)
        /\ timePoints' = insert_or_assign(op[t].label, tp)
    /\ tm' = [tm EXCEPT ![t].label = op[t].label,
                        ![t].prev = lastOn[op[t].label]]
    /\ lastOn' = [lastOn EXCEPT ![op[t].label] = "start"]
    /\ pc' = [pc EXCEPT ![t] = "st_exit"]
    /\ UNCHANGED <<currentLevel, minLogLevel, doColor, outStream, logFile, mtx,
                   mtx_engaged, levelLabels, cols, lc, op, ret, passed, out>>

startTimer_exit(t) ==
    /\ pc[t] = "st_exit"
    /\ unlockStream(t)
    /\ ret' = [ret EXCEPT ![t] = [kind |-> "label", label |-> op[t].label]]
    /\ pc' = [pc EXCEPT ![t] = "done"]
    /\ UNCHANGED <<currentLevel, minLogLevel, doColor, outStream, logFile,
                   timePoints, levelLabels, cols, clock, lc, tm, op,
                   lastOn, passed, out>>

(* Enter details::endTimer (consume) or details::getTimer on label. *)
enter_timer(t, label, consume) ==
    /\ tm' = [tm EXCEPT ![t] = [label |-> label, consume |-> consume,
                                found |-> FALSE, dur |-> 0, prev |-> "none",
                                back |-> "cast"]]
    /\ pc' = [pc EXCEPT ![t] = "tm_lock"]

endTimer_peek(t, label) ==
    /\ pc[t] = "idle"
    /\ mtx.count < MaxHeld
    /\ op' = [op EXCEPT ![t] = [name |-> "endTimer", label |-> label]]
    /\ enter_timer(t, label, FALSE)
    /\ UNCHANGED <<shared, lc, ret, lastOn, passed, out>>

(* endTimer<T>(label). *)
endTimer(t, label) ==
    /\ pc[t] = "idle"
    /\ mtx.count < MaxHeld
    /\ op' = [op EXCEPT ![t] = [name |-> "endTimer", label |-> label]]
    /\ enter_timer(t, label, TRUE)
    /\ UNCHANGED <<shared, lc, ret, lastOn, passed, out>>

getTimer_consume(t, label) ==
    /\ pc[t] = "idle"
    /\ mtx.count < MaxHeld
    /\ op' = [op EXCEPT ![t] = [name |-> "getTimer", label |-> label]]
    /\ enter_timer(t, label, TRUE)
    /\ UNCHANGED <<shared, lc, ret, lastOn, passed, out>>

(* getTimer<T>(label). *)
getTimer(t, label) ==
    /\ pc[t] = "idle"
    /\ mtx.count < MaxHeld
    /\ op' = [op EXCEPT ![t] = [name |-> "getTimer", label |-> label]]
    /\ enter_timer(t, label, FALSE)
    /\ UNCHANGED <<shared, lc, ret, lastOn, passed, out>>

(* logDuration<T>(level, label, prefix): the suffix is suffix_for<T>. *)
logDuration(t, label) ==
    /\ pc[t] = "idle"
    /\ mtx.count < MaxHeld
    /\ op' = [op EXCEPT ![t] = [name |-> "logDuration", label |-> label]]
    /\ enter_timer(t, label, TRUE)
    /\ UNCHANGED <<shared, lc, ret, lastOn, passed, out>>

(* logDurationPersistent<T>(level, label, prefix). *)
logDurationPersistent(t, label) ==
    /\ pc[t] = "idle"
    /\ mtx.count < MaxHeld
    /\ op' = [op EXCEPT ![t] = [name |-> "logDurationPersistent",
                                label |-> label]]
    /\ enter_timer(t, label, FALSE)
    /\ UNCHANGED <<shared, lc, ret, lastOn, passed, out>>

timer_lock(t) ==
    /\ pc[t] = "tm_lock"
    /\ lockStream(t)
    /\ pc' = [pc EXCEPT ![t] = "tm_find"]
    /\ UNCHANGED <<currentLevel, minLogLevel, doColor, outStream, logFile,
                   timePoints, levelLabels, cols, clock, lc, tm, op, ret,
                   lastOn, passed, out>>

(* details::endTimer / details::getTimer: the clock is read, the label is  *)
(* looked up; a miss calls error("Label ", label, " not found!\n") and     *)
(* returns nanoseconds{-1}.                                                *)
timer_find(t) ==
    /\ pc[t] = "tm_find"
    /\ \E endPoint \in ClockValues :
        /\ now(endPoint)
        /\ IF tm[t].label \in DOMAIN timePoints
           THEN /\ tm' = [tm EXCEPT ![t].found = TRUE,
                                    ![t].dur = endPoint - timePoints[tm[t].label],
                                    ![t].prev = lastOn[tm[t].label]]
                /\ timePoints' = IF tm[t].consume THEN extract(tm[t].label)
                                                  ELSE timePoints
                /\ lastOn' = [lastOn EXCEPT ![tm[t].label] =
                                IF tm[t].consume THEN "end" ELSE "get"]
                /\ pc' = [pc EXCEPT ![t] = "tm_exit"]
                /\ UNCHANGED lc
           ELSE /\ tm' = [tm EXCEPT ![t].found = FALSE, ![t].dur = -1,
                                    ![t].prev = lastOn[tm[t].label]]
                /\ lastOn' = [lastOn EXCEPT ![tm[t].label] = "miss"]
                /\ enter_logConcurrent(t, error, TRUE,
                        <<"Label ", tm[t].label, " not found!\n">>,
                        "miss", "tm_exit")
                /\ UNCHANGED timePoints
    /\ UNCHANGED <<currentLevel, minLogLevel, doColor, outStream, logFile, mtx,
                   mtx_engaged, levelLabels, cols, op, ret, passed, out>>

(* The scope of details::endTimer / getTimer ends: unlockStream runs. *)
timer_exit(t) ==
    /\ pc[t] = "tm_exit"
    /\ unlockStream(t)
    /\ pc' = [pc EXCEPT ![t] = tm[t].back]
    /\ UNCHANGED <<currentLevel, minLogLevel, doColor, outStream, logFile,
                   timePoints, levelLabels, cols, clock, lc, tm, op, ret,
                   lastOn, passed, out>>

(* endTimer<T> / getTimer<T>: return duration_cast<T>(dur).  T is read   *)
(* nowhere before this statement, so the caller's T is drawn here.         *)
timer_cast(t) ==
    /\ pc[t] = "cast"
    /\ \E unit \in Units :
        ret' = [ret EXCEPT ![t] = [kind |-> "duration", unit |-> unit,
                                   count |-> duration_cast(tm[t].dur, unit)]]
    /\ pc' = [pc EXCEPT ![t] =
                IF op[t].name \in {"logDuration", "logDurationPersistent"}
                THEN "ld_check" ELSE "done"]
    /\ UNCHANGED <<shared, lc, tm, op, lastOn, passed, out>>

(* logDuration / logDurationPersistent: `if (dur == -1) return;`, then the *)
(* duration line through log(level, ...).  The level and the prefix are    *)
(* read nowhere before this statement, so the caller's are drawn here.     *)
logDuration_check(t) ==
    /\ pc[t] = "ld_check"
    /\ IF ret[t].count = -1
       THEN /\ pc' = [pc EXCEPT ![t] = "done"]
            /\ UNCHANGED lc
       ELSE \E level \in DurationLevels, prefix \in Prefixes :
              enter_logConcurrent(t, level, TRUE,
                IF prefix = ""
                THEN <<op[t].label, ": ", ToString(ret[t].count),
                       suffix_for(ret[t].unit), "\n">>
                ELSE <<prefix, ToString(ret[t].count),
                       suffix_for(ret[t].unit), "\n">>,
                "duration", "done")
    /\ UNCHANGED <<shared, tm, op, ret, lastOn, passed, out>>

(* The steps of startTimer, endTimer<T> and getTimer<T>. *)
LookupSteps(t) ==
    \/ startTimer_lock(t)
    \/ startTimer_insert(t)
    \/ startTimer_exit(t)
    \/ timer_lock(t)
    \/ timer_find(t)
    \/ timer_exit(t)
    \/ timer_cast(t)

TimerSteps(t) ==
    \/ LookupSteps(t)
    \/ logDuration_check(t)

----------------------------------------------------------------------------
(* Logger.cpp: the setters that take the StreamLock.                       *)

setLogLabel(t, lv, label) ==
    /\ pc[t] = "idle"
    /\ op' = [op EXCEPT ![t] = [name |-> "setLogLabel", level |-> lv,
                                text |-> label]]
    /\ pc' = [pc EXCEPT ![t] = "set_lock"]
    /\ UNCHANGED <<shared, lc, tm, ret, lastOn, passed, out>>

setLogColor(t, lv, color) ==
    /\ pc[t] = "idle"
    /\ op' = [op EXCEPT ![t] = [name |-> "setLogColor", level |-> lv,
                                text |-> color]]
    /\ pc' = [pc EXCEPT ![t] = "set_lock"]
    /\ UNCHANGED <<shared, lc, tm, ret, lastOn, passed, out>>

(* setOutStream(os): os is a stream of the caller's. *)
setOutStream(t) ==
    /\ pc[t] = "idle"
    /\ op' = [op EXCEPT ![t] = [name |-> "setOutStream"]]
    /\ pc' = [pc EXCEPT ![t] = "set_lock"]
    /\ UNCHANGED <<shared, lc, tm, ret, lastOn, passed, out>>

setter_lock(t) ==
    /\ pc[t] = "set_lock"
    /\ lockStream(t)
    /\ pc' = [pc EXCEPT ![t] = "set_body"]
    /\ UNCHANGED <<currentLevel, minLogLevel, doColor, outStream, logFile,
                   timePoints, levelLabels, cols, clock, lc, tm, op, ret,
                   lastOn, passed, out>>

setter_body_allLevels(t) ==
    /\ pc[t] = "set_body"
    /\ levelLabels' = IF op[t].name = "setLogLabel"
                      THEN [l \in Levels |-> op[t].text]
                      ELSE levelLabels
    /\ cols' = IF op[t].name = "setLogColor"
               THEN [l \in Levels |-> op[t].text]
               ELSE cols
    /\ outStream' = IF op[t].name = "setOutStream" THEN "user" ELSE outStream
    /\ pc' = [pc EXCEPT ![t] = "set_exit"]
    /\ UNCHANGED <<currentLevel, minLogLevel, doColor, logFile, mtx,
                   mtx_engaged, timePoints, clock, lc, tm, op, ret,
                   lastOn, passed, out>>

(* The one assignment of setLogLabel, setLogColor or setOutStream. *)
setter_body(t) ==
    /\ pc[t] = "set_body"
    /\ levelLabels' = IF op[t].name = "setLogLabel"
                      THEN [levelLabels EXCEPT ![op[t].level] = op[t].text]
                      ELSE levelLabels
    /\ cols' = IF op[t].name = "setLogColor"
               THEN [cols EXCEPT ![op[t].level] = op[t].text]
               ELSE cols
    /\ outStream' = IF op[t].name = "setOutStream" THEN "user" ELSE outStream
    /\ pc' = [pc EXCEPT ![t] = "set_exit"]
    /\ UNCHANGED <<currentLevel, minLogLevel, doColor, logFile, mtx,
                   mtx_engaged, timePoints, clock, lc, tm, op, ret,
                   lastOn, passed, out>>

setter_exit(t) ==
    /\ pc[t] = "set_exit"
    /\ unlockStream(t)
    /\ pc' = [pc EXCEPT ![t] = "done"]
    /\ UNCHANGED <<currentLevel, minLogLevel, doColor, outStream, logFile,
                   timePoints, levelLabels, cols, clock, lc, tm, op, ret,
                   lastOn, passed, out>>

SetterSteps(t) ==
    \/ setter_lock(t)
    \/ setter_body(t)
    \/ setter_exit(t)

----------------------------------------------------------------------------
(* Logger.cpp: initLogFile and dumpLogFile.                                *)

(* dir / filename of std::filesystem. *)
FilePath(directory, filename) ==
    IF directory = "" THEN filename ELSE directory \o "/" \o filename

(* The call is recorded with the sink target, the log file and the color   *)
(* flag it found.                                                          *)
initLogFile(t, directory, filename) ==
    /\ pc[t] = "idle"
    /\ op' = [op EXCEPT ![t] = [name |-> "initLogFile",
                                directory |-> directory,
                                filename |-> filename,
                                target |-> outStream, file |-> logFile,
                                color |-> doColor]]
    /\ pc' = [pc EXCEPT ![t] = "il_mkdir"]
    /\ UNCHANGED <<shared, lc, tm, ret, lastOn, passed, out>>

initLogFile_mkdir_noreturn(t) ==
    /\ pc[t] = "il_mkdir"
    /\ \/ /\ pc' = [pc EXCEPT ![t] = "il_isopen"]
          /\ UNCHANGED lc
       \/ /\ op[t].directory # ""
          /\ enter_logConcurrent(t, error, TRUE,
                <<"failed to open log file '", op[t].directory, "/",
                  op[t].filename, "': ", "ec.message">>,
                "fileerr", "il_isopen")
    /\ UNCHANGED <<shared, tm, op, ret, lastOn, passed, out>>

(* fs::create_directories(dir, ec): it succeeds or it sets ec; with ec set *)
(* the failure is logged through error(...) and initLogFile returns.       *)
initLogFile_mkdir(t) ==
    /\ pc[t] = "il_mkdir"
    /\ \/ /\ pc' = [pc EXCEPT ![t] = "il_isopen"]
          /\ UNCHANGED lc
       \/ /\ op[t].directory # ""
          /\ enter_logConcurrent(t, error, TRUE,
                <<"failed to open log file '", op[t].directory, "/",
                  op[t].filename, "': ", "ec.message">>,
                "fileerr", "done")
    /\ UNCHANGED <<shared, tm, op, ret, lastOn, passed, out>>

initLogFile_isopen_skip(t) ==
    /\ pc[t] = "il_isopen"
    /\ pc' = [pc EXCEPT ![t] = "il_open"]
    /\ UNCHANGED <<shared, lc, tm, op, ret, lastOn, passed, out>>

(* `if (logFile.is_open()) dumpLogFile();` *)
initLogFile_isopen(t) ==
    /\ pc[t] = "il_isopen"
    /\ pc' = [pc EXCEPT ![t] =
                IF logFile # "closed" THEN "dl_check" ELSE "il_open"]
    /\ UNCHANGED <<shared, lc, tm, op, ret, lastOn, passed, out>>

(* `logFile = std::ofstream{filepath}`: the file opens or it does not. *)
initLogFile_open(t) ==
    /\ pc[t] = "il_open"
    /\ logFile' \in {FilePath(op[t].directory, op[t].filename), "closed"}
    /\ pc' = [pc EXCEPT ![t] = "il_switch"]
    /\ UNCHANGED <<currentLevel, minLogLevel, doColor, outStream, mtx,
                   mtx_engaged, timePoints, levelLabels, cols, clock,
                   lc, tm, op, ret, lastOn, passed, out>>

(* `if (logFile.is_open()) { outStream.rdbuf(logFile.rdbuf()); ...` *)
initLogFile_switch(t) ==
    /\ pc[t] = "il_switch"
    /\ IF logFile # "closed"
       THEN /\ outStream' = "file"
            /\ pc' = [pc EXCEPT ![t] = "il_nocolor"]
       ELSE /\ pc' = [pc EXCEPT ![t] = "done"]
            /\ UNCHANGED outStream
    /\ UNCHANGED <<currentLevel, minLogLevel, doColor, logFile, mtx,
                   mtx_engaged, timePoints, levelLabels, cols, clock,
                   lc, tm, op, ret, lastOn, passed, out>>

initLogFile_keepcolor(t) ==
    /\ pc[t] = "il_nocolor"
    /\ pc' = [pc EXCEPT ![t] = "done"]
    /\ UNCHANGED <<shared, lc, tm, op, ret, lastOn, passed, out>>

(* `... disableColor(); }` *)
initLogFile_nocolor(t) ==
    /\ pc[t] = "il_nocolor"
    /\ doColor' = FALSE
    /\ pc' = [pc EXCEPT ![t] = "done"]
    /\ UNCHANGED <<currentLevel, minLogLevel, outStream, logFile, mtx,
                   mtx_engaged, timePoints, levelLabels, cols, clock,
                   lc, tm, op, ret, lastOn, passed, out>>

dumpLogFile(t) ==
    /\ pc[t] = "idle"
    /\ op' = [op EXCEPT ![t] = [name |-> "dumpLogFile",
                                target |-> outStream, file |-> logFile,
                                color |-> doColor]]
    /\ pc' = [pc EXCEPT ![t] = "dl_check"]
    /\ UNCHANGED <<shared, lc, tm, ret, lastOn, passed, out>>

(* Where dumpLogFile returns to: into initLogFile, or to the caller. *)
dumpLogFile_back(t) == IF op[t].name = "initLogFile" THEN "il_open" ELSE "done"

(* dumpLogFile: `if (logFile.is_open())`. *)
dumpLogFile_check(t) ==
    /\ pc[t] = "dl_check"
    /\ pc' = [pc EXCEPT ![t] =
                IF logFile # "closed" THEN "dl_revert" ELSE dumpLogFile_back(t)]
    /\ UNCHANGED <<shared, lc, tm, op, ret, lastOn, passed, out>>

dumpLogFile_revert_always(t) ==
    /\ pc[t] = "dl_revert"
    /\ outStream' = "cout"
    /\ pc' = [pc EXCEPT ![t] = "dl_close"]
    /\ UNCHANGED <<currentLevel, minLogLevel, doColor, logFile, mtx,
                   mtx_engaged, timePoints, levelLabels, cols, clock,
                   lc, tm, op, ret, lastOn, passed, out>>

(* `if (outStream.rdbuf() == logFile.rdbuf()) outStream.rdbuf(std::cout.rdbuf());` *)
dumpLogFile_revert(t) ==
    /\ pc[t] = "dl_revert"
    /\ outStream' = IF outStream = "file" THEN "cout" ELSE outStream
    /\ pc' = [pc EXCEPT ![t] = "dl_close"]
    /\ UNCHANGED <<currentLevel, minLogLevel, doColor, logFile, mtx,
                   mtx_engaged, timePoints, levelLabels, cols, clock,
                   lc, tm, op, ret, lastOn, passed, out>>

(* `logFile.close();` *)
dumpLogFile_close(t) ==
    /\ pc[t] = "dl_close"
    /\ logFile' = "closed"
    /\ pc' = [pc EXCEPT ![t] = dumpLogFile_back(t)]
    /\ UNCHANGED <<currentLevel, minLogLevel, doColor, outStream, mtx,
                   mtx_engaged, timePoints, levelLabels, cols, clock,
                   lc, tm, op, ret, lastOn, passed, out>>

FileSteps(t) ==
    \/ initLogFile_mkdir(t)
    \/ initLogFile_isopen(t)
    \/ initLogFile_open(t)
    \/ initLogFile_switch(t)
    \/ initLogFile_nocolor(t)
    \/ dumpLogFile_check(t)
    \/ dumpLogFile_revert(t)
    \/ dumpLogFile_close(t)

----------------------------------------------------------------------------
(* The reader of the sink takes what was written while no call is running. *)
ReadSink ==
    /\ out # <<>>
    /\ \A t \in Threads : pc[t] = "idle"
    /\ out' = <<>>
    /\ passed' = 0
    /\ UNCHANGED <<shared, locals, lastOn>>

----------------------------------------------------------------------------
(* One thread: filtering and the unconditional entry point.                *)

(* The reader has taken the output of the previous call. *)
Fresh == out = <<>>

(* The lines of thread t in the sink: the calls of t that wrote to it. *)
LinesOf(t) == {out[i].id : i \in {k \in 1..Len(out) : out[k].th = t}}

(* Thread t has fewer than MaxLines unread lines in the sink. *)
Quota(t) == Cardinality(LinesOf(t)) < MaxLines

NextGate ==
    \/ \E lv \in debug..fatal, n \in 1..MaxArgs : Fresh /\ leveled(Main, lv, n)
    \/ \E n \in 1..MaxArgs : Fresh /\ log_always(Main, n)
    \/ \E lv \in Levels : Fresh /\ setMinimumLogLevel(Main, lv)
    \/ Fresh /\ disableColor(Main)
    \/ Fresh /\ enableColor(Main)
    \/ LogSteps(Main)
    \/ Return(Main)
    \/ ReadSink

SpecGate == Init /\ [][NextGate]_vars

----------------------------------------------------------------------------
(* One thread: lookups of timer labels under every minimum level, color    *)
(* setting and sink target.                                                *)

NextMiss ==
    \/ \E lv \in Levels : Fresh /\ setMinimumLogLevel(Main, lv)
    \/ Fresh /\ disableColor(Main)
    \/ Fresh /\ enableColor(Main)
    \/ Fresh /\ setOutStream(Main)
    \/ Fresh /\ startTimer(Main, "a")
    \/ \E l \in Labels : Fresh /\ endTimer(Main, l)
    \/ \E l \in Labels : Fresh /\ getTimer(Main, l)
    \/ \E l \in Labels : Fresh /\ logDuration(Main, l)
    \/ \E l \in Labels : Fresh /\ logDurationPersistent(Main, l)
    \/ TimerSteps(Main)
    \/ LogSteps(Main)
    \/ SetterSteps(Main)
    \/ Return(Main)
    \/ ReadSink

SpecMiss == Init /\ [][NextMiss]_vars

----------------------------------------------------------------------------
(* One thread: the timer registry.                                         *)

NextTimer ==
    \/ \E l \in Labels : Fresh /\ startTimer(Main, l)
    \/ \E l \in Labels : Fresh /\ endTimer(Main, l)
    \/ \E l \in Labels : Fresh /\ getTimer(Main, l)
    \/ \E l \in Labels : Fresh /\ logDuration(Main, l)
    \/ \E l \in Labels : Fresh /\ logDurationPersistent(Main, l)
    \/ TimerSteps(Main)
    \/ LogSteps(Main)
    \/ Return(Main)
    \/ ReadSink

SpecTimer == Init /\ [][NextTimer]_vars

----------------------------------------------------------------------------
(* Two threads: logging while the sink, the level tables and the log file  *)
(* are reconfigured.                                                       *)

Next ==
    \/ \E t \in Threads : Fresh /\ leveled(t, warn, 1)
    \/ \E t \in Threads : Fresh /\ setLogLabel(t, warn, "WARN")
    \/ \E t \in Threads : Fresh /\ setLogColor(t, warn, "ESC[35m")
    \/ \E t \in Threads : Fresh /\ setOutStream(t)
    \/ \E t \in Threads : Fresh /\ initLogFile(t, "logs", "Log.log")
    \/ \E t \in Threads : Fresh /\ dumpLogFile(t)
    \/ \E t \in Threads : LogSteps(t)
    \/ \E t \in Threads : SetterSteps(t)
    \/ \E t \in Threads : FileSteps(t)
    \/ \E t \in Threads : Return(t)
    \/ ReadSink

Spec == Init /\ [][Next]_vars

----------------------------------------------------------------------------
(* Two threads that only log.                                              *)

NextLines ==
    \/ \E t \in Threads, lv \in {debug, warn}, n \in {1, MaxArgs} :
            Quota(t) /\ leveled(t, lv, n)
    \/ \E t \in Threads : LogSteps(t)
    \/ \E t \in Threads : Return(t)
    \/ ReadSink

SpecLines == Init /\ [][NextLines]_vars

----------------------------------------------------------------------------
(* Two threads that log and use one timer label, each thread's steps       *)
(* scheduled fairly.                                                       *)

NextLive ==
    \/ \E t \in Threads : Fresh /\ leveled(t, warn, 1)
    \/ \E t \in Threads : Fresh /\ startTimer(t, "a")
    \/ \E t \in Threads : Fresh /\ endTimer(t, "a")
    \/ \E t \in Threads : Fresh /\ getTimer(t, "a")
    \/ \E t \in Threads : LogSteps(t)
    \/ \E t \in Threads : LookupSteps(t)
    \/ \E t \in Threads : Return(t)
    \/ ReadSink

(* The steps of thread t inside a call it has made. *)
Step(t) == LogSteps(t) \/ LookupSteps(t) \/ Return(t)

SpecLive == Init /\ [][NextLive]_vars /\ \A t \in Threads : SF_vars(Step(t))

----------------------------------------------------------------------------
(* Two threads that end the timer of one label; the label is started while *)
(* no other call is running.                                               *)

(* No thread is inside a call. *)
Quiet == \A t \in Threads : pc[t] = "idle"

(* No thread is inside startTimer. *)
StartReturned == \A t \in Threads : op[t].name # "startTimer"

NextRace ==
    \/ \E t \in Threads : Quiet /\ Fresh /\ startTimer(t, "a")
    \/ \E t \in Threads : StartReturned /\ Fresh /\ endTimer(t, "a")
    \/ \E t \in Threads : LogSteps(t)
    \/ \E t \in Threads : LookupSteps(t)
    \/ \E t \in Threads : Return(t)
    \/ ReadSink

SpecRace == Init /\ [][NextRace]_vars

----------------------------------------------------------------------------
(* One thread: the log file, the sink target and the color flag.           *)

NextFile ==
    \/ \E d \in {"", "logs"} : Fresh /\ initLogFile(Main, d, "Log.log")
    \/ Fresh /\ dumpLogFile(Main)
    \/ Fresh /\ setOutStream(Main)
    \/ Fresh /\ disableColor(Main)
    \/ Fresh /\ enableColor(Main)
    \/ \E n \in 1..MaxArgs : Fresh /\ leveled(Main, warn, n)
    \/ LogSteps(Main)
    \/ SetterSteps(Main)
    \/ FileSteps(Main)
    \/ Return(Main)
    \/ ReadSink

SpecFile == Init /\ [][NextFile]_vars

----------------------------------------------------------------------------
(* One thread: logging, setters, timers and the log file under every       *)
(* minimum level.                                                          *)

NextLevel ==
    \/ \E lv \in Levels : Fresh /\ setMinimumLogLevel(Main, lv)
    \/ Fresh /\ leveled(Main, warn, 1)
    \/ Fresh /\ log_always(Main, 1)
    \/ Fresh /\ setLogLabel(Main, warn, "WARN")
    \/ Fresh /\ disableColor(Main)
    \/ Fresh /\ enableColor(Main)
    \/ Fresh /\ startTimer(Main, "a")
    \/ Fresh /\ endTimer(Main, "a")
    \/ Fresh /\ initLogFile(Main, "logs", "Log.log")
    \/ Fresh /\ dumpLogFile(Main)
    \/ LogSteps(Main)
    \/ LookupSteps(Main)
    \/ SetterSteps(Main)
    \/ FileSteps(Main)
    \/ Return(Main)
    \/ ReadSink

SpecLevel == Init /\ [][NextLevel]_vars

----------------------------------------------------------------------------
(* One thread: leveled calls under every minimum level, with labels set by *)
(* setLogLabel.                                                            *)

NextFormat ==
    \/ \E lv \in debug..fatal, n \in 1..MaxArgs : Fresh /\ leveled(Main, lv, n)
    \/ \E lv \in Levels : Fresh /\ setMinimumLogLevel(Main, lv)
    \/ \E lv \in {debug, warn} : Fresh /\ setLogLabel(Main, lv, "CUSTOM")
    \/ Fresh /\ disableColor(Main)
    \/ Fresh /\ enableColor(Main)
    \/ LogSteps(Main)
    \/ SetterSteps(Main)
    \/ Return(Main)
    \/ ReadSink

SpecFormat == Init /\ [][NextFormat]_vars

----------------------------------------------------------------------------
(* One thread: leveled calls with labels and colors set by setLogLabel and *)
(* setLogColor, under two minimum levels, both color settings and both     *)
(* sink targets.                                                           *)

NextTables ==
    \/ \E lv \in {info, warn} : Fresh /\ leveled(Main, lv, 1)
    \/ \E lv \in {debug, warn} : Fresh /\ setMinimumLogLevel(Main, lv)
    \/ \E lv \in {info, warn} : Fresh /\ setLogLabel(Main, lv, "CUSTOM")
    \/ \E lv \in {info, warn} : Fresh /\ setLogColor(Main, lv, "ESC[35m")
    \/ Fresh /\ disableColor(Main)
    \/ Fresh /\ enableColor(Main)
    \/ Fresh /\ setOutStream(Main)
    \/ LogSteps(Main)
    \/ SetterSteps(Main)
    \/ Return(Main)
    \/ ReadSink

SpecTables == Init /\ [][NextTables]_vars

----------------------------------------------------------------------------

(* Two threads that log at different levels and look up one timer label,   *)
(* which reports a miss through error(...) when the label is not there.    *)

NextLevels ==
    \/ \E t \in Threads, lv \in {warn, critical} : Fresh /\ leveled(t, lv, 1)
    \/ \E t \in Threads : Fresh /\ startTimer(t, "a")
    \/ \E t \in Threads : Fresh /\ endTimer(t, "a")
    \/ \E t \in Threads : LogSteps(t)
    \/ \E t \in Threads : LookupSteps(t)
    \/ \E t \in Threads : Return(t)
    \/ ReadSink

SpecLevels == Init /\ [][NextLevels]_vars

----------------------------------------------------------------------------

(* Two threads: one logs while the other switches coloring on and off.     *)

NextColor ==
    \/ \E t \in Threads : Fresh /\ leveled(t, warn, 1)
    \/ \E t \in Threads : disableColor(t)
    \/ \E t \in Threads : enableColor(t)
    \/ \E t \in Threads : LogSteps(t)
    \/ \E t \in Threads : Return(t)
    \/ ReadSink

SpecColor == Init /\ [][NextColor]_vars

----------------------------------------------------------------------------

(* Properties of the filtering gate (SpecGate).                            *)

(* C1, as stated: for every severity L among debug .. fatal and every      *)
(* minimum level M strictly above L (M = log included), a leveled call at  *)
(* L writes nothing to the sink.                                           *)
C1_AsStated ==
    \A t \in Threads :
        (op[t].name = "leveled" /\ minLogLevel > op[t].level) => out = <<>>

(* C1, amended: for every severity L among debug .. critical and every     *)
(* minimum level M strictly above L, a leveled call at L writes nothing to *)
(* the sink; a call at fatal is never filtered: once it has returned, its  *)
(* line is in the sink whatever the minimum level is.                      *)
C1_Filtered ==
    \A t \in Threads :
        /\ (op[t].name = "leveled" /\ op[t].level \in debug..critical
                /\ minLogLevel > op[t].level) => out = <<>>
        /\ (op[t].name = "leveled" /\ op[t].level = fatal /\ pc[t] = "done")
                => Len(out) = 1 + Len(lc[t].vals)

(* A call at critical has returned under minimum level log and the sink is *)
(* empty.                                                                  *)
C1_Witness ==
    /\ pc[Main] = "done"
    /\ op[Main].name = "leveled"
    /\ op[Main].level = critical
    /\ minLogLevel = log
    /\ lc[Main].min = log
    /\ out = <<>>

(* C2: log(args...) writes its values to the sink, in argument order, for  *)
(* every minimum level, and no "[LABEL] " decoration before them.          *)
C2_LogAlways ==
    \A t \in Threads :
        (op[t].name = "log" /\ pc[t] = "done") =>
            /\ Len(out) = Len(lc[t].vals)
            /\ \A i \in 1..Len(out) :
                  /\ out[i].kind = "value"
                  /\ out[i].txt = lc[t].vals[i]
                  /\ out[i].th = t

(* log("v1", "v2") has returned under minimum level log with both values   *)
(* in the sink.                                                            *)
C2_Witness ==
    /\ pc[Main] = "done"
    /\ op[Main].name = "log"
    /\ minLogLevel = log
    /\ Len(out) = 2
    /\ out[1].txt = "v1"
    /\ out[2].txt = "v2"

----------------------------------------------------------------------------
(* Properties of the StreamLock (SpecMiss, SpecLive, SpecLines, Spec).     *)

(* C3: once the outermost operation of a thread has returned, the thread   *)
(* holds the StreamLock zero times.                                        *)
C3_LockReleased ==
    \A t \in Threads : pc[t] = "idle" => mtx.owner # t

(* C4: under fair scheduling every call that has started eventually        *)
(* returns.                                                                *)
C4_EveryCallReturns ==
    \A t \in Threads : (pc[t] # "idle") ~> (pc[t] = "idle")

(* The pieces in the sink that the call with number id wrote. *)
LineOf(id) == SelectSeq(out, LAMBDA p : p.id = id)

(* A complete line of a leveled call: the decoration, then its n values. *)
Complete(line) ==
    /\ Len(line) = line[1].n + 1
    /\ line[1].kind = "label"
    /\ \A k \in 1..line[1].n :
          /\ line[k + 1].kind = "value"
          /\ line[k + 1].txt = Args(line[1].n)[k]

(* C5: the pieces one call wrote are contiguous in the sink, and when the  *)
(* threads have made their calls the sink holds exactly one complete line  *)
(* for every call that passed the gate.                                    *)
C5_Lines ==
    /\ \A i, j \in 1..Len(out) :
          (i < j /\ out[i].id = out[j].id) =>
              \A k \in i..j : out[k].id = out[i].id /\ out[k].th = out[i].th
    /\ (\A t \in Threads : pc[t] = "idle") =>
          /\ {out[i].id : i \in 1..Len(out)} = 1..passed
          /\ \A id \in 1..passed : Complete(LineOf(id))

(* Both threads have made MaxLines calls that passed the gate, their lines *)
(* alternate in the sink, and no call is running.                          *)
C5_Witness ==
    /\ \A t \in Threads : pc[t] = "idle" /\ Cardinality(LinesOf(t)) = MaxLines
    /\ passed = 2 * MaxLines
    /\ out[1].th # LineOf(2)[1].th

(* C6: every write to the sink target, the label and color tables, the     *)
(* current-severity register, the timer registry and the log file handle   *)
(* is made by a thread that holds the StreamLock.                          *)
C6_WritesUnderLock ==
    [][\A t \in Threads :
          (/\ pc'[t] # pc[t]
           /\ \/ outStream' # outStream
              \/ logFile' # logFile
              \/ levelLabels' # levelLabels
              \/ cols' # cols
              \/ currentLevel' # currentLevel
              \/ timePoints' # timePoints)
          => (mtx.owner = t /\ mtx.count > 0)]_vars

----------------------------------------------------------------------------
(* Properties of the timer registry (SpecMiss, SpecTimer).                 *)

(* endTimer or getTimer of thread t has returned from a lookup that found  *)
(* no entry.                                                               *)
MissReturned(t) ==
    /\ pc[t] = "done"
    /\ op[t].name \in {"endTimer", "getTimer"}
    /\ ~tm[t].found

(* The sink holds one Error line "Label <label> not found!" and no more. *)
IsMissLine(label) ==
    /\ Len(out) = 4
    /\ \A i \in 1..4 : out[i].what = "miss" /\ out[i].lvl = error
    /\ out[1].kind = "label" /\ out[1].txt = "[ERROR] "
    /\ out[2].kind = "value" /\ out[2].txt = "Label "
    /\ out[3].kind = "value" /\ out[3].txt = label
    /\ out[4].kind = "value" /\ out[4].txt = " not found!\n"

(* C7, as stated: endTimer or getTimer on a label that is not in the       *)
(* registry writes exactly one Error line to the sink, in every            *)
(* configuration.                                                          *)
C7_AsStated ==
    \A t \in Threads : MissReturned(t) => IsMissLine(tm[t].label)

(* C7, amended: endTimer or getTimer on a label that is not in the         *)
(* registry writes exactly one Error line, in the color setting and to the *)
(* sink target in force, when the minimum level is at most error, and      *)
(* writes nothing when the minimum level is critical, fatal or log.        *)
C7_MissReport ==
    \A t \in Threads : MissReturned(t) =>
        IF minLogLevel <= error
        THEN /\ IsMissLine(tm[t].label)
             /\ \A i \in 1..Len(out) :
                   /\ out[i].pre = (IF doColor THEN cols[error] ELSE "")
                   /\ out[i].post = (IF doColor THEN reset_col ELSE "")
                   /\ out[i].tgt = outStream
        ELSE out = <<>>

(* endTimer on a missing label has returned under minimum level critical,  *)
(* and the sink is empty.                                                  *)
C7_Witness ==
    /\ MissReturned(Main)
    /\ op[Main].name = "endTimer"
    /\ minLogLevel = critical
    /\ lc[Main].what = "miss"
    /\ out = <<>>

(* C8: for every unit T, endTimer<T> and getTimer<T> on a label that is    *)
(* not in the registry return a duration whose count is -1, and no call on *)
(* a label that is in the registry returns it.                             *)
C8_Sentinel ==
    \A t \in Threads :
        (pc[t] = "done" /\ op[t].name \in {"endTimer", "getTimer"}) =>
            (ret[t].count = -1 <=> ~tm[t].found)

(* C9: logDuration<T> and logDurationPersistent<T> on a label that is not  *)
(* in the registry write no duration line.                                 *)
C9_NoDurationLine ==
    \A t \in Threads :
        (/\ op[t].name \in {"logDuration", "logDurationPersistent"}
         /\ pc[t] \notin {"idle", "tm_lock", "tm_find"}
         /\ ~tm[t].found)
        => \A i \in 1..Len(out) : out[i].what # "duration"

(* C10: endTimer on a label whose last registry operation was startTimer   *)
(* finds the entry, returns a duration >= 0 and removes the label; endTimer *)
(* on a label whose last registry operation was an endTimer finds no entry *)
(* and reports a miss.                                                     *)
C10_StartEnd ==
    \A t \in Threads : (op[t].name = "endTimer") =>
        /\ (tm[t].prev = "start") =>
              /\ tm[t].found
              /\ tm[t].dur >= 0
              /\ tm[t].label \notin DOMAIN timePoints
              /\ (pc[t] = "done") => (ret[t].kind = "duration" /\ ret[t].count >= 0)
        /\ (tm[t].prev = "end") =>
              /\ ~tm[t].found
              /\ tm[t].dur = -1
              /\ tm[t].label \notin DOMAIN timePoints
              /\ (pc[t] = "done") => IsMissLine(tm[t].label)

(* A second endTimer("a") has returned: it found no entry and its miss     *)
(* report is in the sink.                                                  *)
C10_Witness ==
    /\ pc[Main] = "done"
    /\ op[Main].name = "endTimer"
    /\ tm[Main].label = "a"
    /\ tm[Main].prev = "end"
    /\ ~tm[Main].found
    /\ Len(out) = 4

(* C11: getTimer on a label whose last registry operation was startTimer   *)
(* or a getTimer finds the entry, returns a duration >= 0 and leaves the   *)
(* label in the registry with the start instant it read; an endTimer after *)
(* such a getTimer finds the entry.                                        *)
C11_Peek ==
    \A t \in Threads :
        /\ (op[t].name = "getTimer" /\ tm[t].prev \in {"start", "get"}) =>
              /\ tm[t].found
              /\ tm[t].dur >= 0
              /\ tm[t].label \in DOMAIN timePoints
              /\ timePoints[tm[t].label] = clock - tm[t].dur
              /\ (pc[t] = "done") => (ret[t].kind = "duration" /\ ret[t].count >= 0)
        /\ (op[t].name = "endTimer" /\ tm[t].prev = "get") =>
              /\ tm[t].found
              /\ tm[t].dur >= 0

(* A second getTimer("a") in a row has returned a duration of 1500 ns and  *)
(* the entry of "a" still holds the start instant 0.                       *)
C11_Witness ==
    /\ pc[Main] = "done"
    /\ op[Main].name = "getTimer"
    /\ tm[Main].label = "a"
    /\ tm[Main].prev = "get"
    /\ tm[Main].dur = 1500
    /\ "a" \in DOMAIN timePoints
    /\ timePoints["a"] = 0

(* C12: startTimer(label) returns label, logs nothing and leaves the       *)
(* registry with the entry of label holding the instant of this start,     *)
(* whether or not label had an entry; the entries of the other labels are  *)
(* as they were.                                                           *)
C12_Start ==
    /\ [](\A t \in Threads : (op[t].name = "startTimer" /\ pc[t] = "done") =>
            /\ ret[t].kind = "label"
            /\ ret[t].label = op[t].label
            /\ op[t].label \in DOMAIN timePoints
            /\ timePoints[op[t].label] = clock
            /\ out = <<>>)
    /\ [][\A t \in Threads : (op[t].name = "startTimer") =>
              \A l \in Labels \ {op[t].label} :
                  /\ (l \in DOMAIN timePoints') = (l \in DOMAIN timePoints)
                  /\ (l \in DOMAIN timePoints) => timePoints'[l] = timePoints[l]]_vars

(* startTimer("a") has returned at instant 1500 over an entry a startTimer *)
(* had left, while "b" keeps its entry of instant 0.                       *)
C12_Witness ==
    /\ pc[Main] = "done"
    /\ op[Main].name = "startTimer"
    /\ op[Main].label = "a"
    /\ tm[Main].prev = "start"
    /\ clock = 1500
    /\ timePoints = [l \in {"a", "b"} |-> IF l = "a" THEN 1500 ELSE 0]

(* Thread t is in endTimer and its lookup has been made. *)
EndLookedUp(t) ==
    /\ op[t].name = "endTimer"
    /\ pc[t] \notin {"idle", "tm_lock", "tm_find"}

(* C13: when two threads are in endTimer on the same label at once and the *)
(* label was started once, exactly one call finds and removes the entry    *)
(* and has a duration >= 0; the other finds no entry, has the sentinel and *)
(* reports the miss.                                                       *)
C13_OneEnd ==
    \A t, u \in Threads :
        (/\ t # u
         /\ EndLookedUp(t) /\ EndLookedUp(u)
         /\ tm[t].label = tm[u].label
         /\ tm[t].prev = "start")
        => /\ tm[t].found /\ tm[t].dur >= 0
           /\ ~tm[u].found /\ tm[u].dur = -1
           /\ tm[u].prev = "end"
           /\ tm[t].label \notin DOMAIN timePoints
           /\ (pc[t] = "done" /\ pc[u] = "done") =>
                 /\ IsMissLine(tm[u].label)
                 /\ \A i \in 1..Len(out) : out[i].th = u

(* Both threads have returned from endTimer("a"): t2 found the entry, t1   *)
(* found none and its miss report is in the sink.                          *)
C13_Witness ==
    /\ pc["t1"] = "done" /\ pc["t2"] = "done"
    /\ op["t1"].name = "endTimer" /\ op["t2"].name = "endTimer"
    /\ tm["t2"].prev = "start" /\ tm["t2"].found
    /\ ~tm["t1"].found
    /\ Len(out) = 4

----------------------------------------------------------------------------
(* Properties of the log file (SpecFile).                                  *)

(* initLogFile of thread t has returned after the directory was made and   *)
(* the file was opened.                                                    *)
InitSucceeded(t) ==
    /\ pc[t] = "done"
    /\ op[t].name = "initLogFile"
    /\ lc[t].what # "fileerr"
    /\ logFile # "closed"

(* C14: a successful initLogFile leaves the sink target on the log file    *)
(* and the color flag off; dumpLogFile called with the log file as target  *)
(* returns the target to the console and leaves the color flag as it was;  *)
(* the color flag goes from off to on only in enableColor.                 *)
C14_FileColor ==
    /\ [](\A t \in Threads :
            /\ InitSucceeded(t) =>
                  /\ outStream = "file"
                  /\ logFile = FilePath(op[t].directory, op[t].filename)
                  /\ ~doColor
            /\ (pc[t] = "done" /\ op[t].name = "dumpLogFile"
                    /\ op[t].target = "file") =>
                  /\ outStream = "cout"
                  /\ logFile = "closed"
                  /\ doColor = op[t].color)
    /\ [][(~doColor /\ doColor') => enableColor(Main)]_vars

(* dumpLogFile has returned: it found the log file as target, the target   *)
(* is the console again and the color flag is still off.                   *)
C14_Witness ==
    /\ pc[Main] = "done"
    /\ op[Main].name = "dumpLogFile"
    /\ op[Main].target = "file"
    /\ op[Main].file = "Log.log"
    /\ outStream = "cout"
    /\ logFile = "closed"
    /\ ~doColor

(* C15: no color escape sequence is written while the sink target is the   *)
(* log file.                                                               *)
C15_NoEscapesInFile ==
    \A i \in 1..Len(out) :
        (out[i].tgt = "file") => (out[i].pre = "" /\ out[i].post = "")

(* The sink holds the Error line of a directory that could not be made. *)
IsFileErrLine(directory, filename) ==
    /\ Len(out) = 7
    /\ \A i \in 1..7 : out[i].what = "fileerr" /\ out[i].lvl = error
    /\ out[1].kind = "label" /\ out[1].txt = "[ERROR] "
    /\ out[2].txt = "failed to open log file '"
    /\ out[3].txt = directory
    /\ out[4].txt = "/"
    /\ out[5].txt = filename
    /\ out[6].txt = "': "
    /\ out[7].txt = "ec.message"

(* C16: when initLogFile cannot make the directory it writes one Error     *)
(* line with the path and the message of the error code, and the sink      *)
(* target, the color flag and the log file stay as the call found them.    *)
C16_MkdirFails ==
    \A t \in Threads :
        (op[t].name = "initLogFile" /\ lc[t].what = "fileerr") =>
            /\ outStream = op[t].target
            /\ logFile = op[t].file
            /\ doColor = op[t].color
            /\ (pc[t] = "done") =>
                  IsFileErrLine(op[t].directory, op[t].filename)

(* initLogFile("logs", "Log.log") has returned after the directory could   *)
(* not be made, while the log file "Log.log" is open and is the target.    *)
C16_Witness ==
    /\ pc[Main] = "done"
    /\ op[Main].name = "initLogFile"
    /\ op[Main].directory = "logs"
    /\ lc[Main].what = "fileerr"
    /\ logFile = "Log.log"
    /\ outStream = "file"
    /\ Len(out) = 7

(* C17: whenever initLogFile fails, because the directory cannot be made   *)
(* or the file cannot be opened, the sink target and the log file are      *)
(* after the call what they were before it.                                *)
C17_FailureKeepsState ==
    \A t \in Threads :
        (/\ pc[t] = "done"
         /\ op[t].name = "initLogFile"
         /\ (lc[t].what = "fileerr" \/ logFile = "closed"))
        => (outStream = op[t].target /\ logFile = op[t].file)

(* C18: dumpLogFile closes the log file, moves the sink target to the      *)
(* console exactly when a log file was open and was the target, writes     *)
(* nothing and leaves the color flag; with no log file open it changes     *)
(* nothing.                                                                *)
C18_Dump ==
    \A t \in Threads :
        (pc[t] = "done" /\ op[t].name = "dumpLogFile") =>
            /\ logFile = "closed"
            /\ outStream = (IF op[t].file # "closed" /\ op[t].target = "file"
                             THEN "cout" ELSE op[t].target)
            /\ doColor = op[t].color
            /\ out = <<>>

(* dumpLogFile has returned: it found the log file open and a stream of    *)
(* setOutStream as target, and the target is still that stream.            *)
C18_Witness ==
    /\ pc[Main] = "done"
    /\ op[Main].name = "dumpLogFile"
    /\ op[Main].file # "closed"
    /\ op[Main].target = "user"
    /\ outStream = "user"
    /\ logFile = "closed"

----------------------------------------------------------------------------
(* Properties of the minimum level and of the line format (SpecLevel,      *)
(* SpecFormat).                                                            *)

(* The statements of logConcurrent after its gate let the call pass. *)
PastGate == {"print_if", "print_write", "pwl_if", "pwl_write"}

(* C19: the minimum level is info before any call; setMinimumLogLevel(lv)  *)
(* returns lv and leaves the minimum level at lv; a gate compares against  *)
(* the minimum level of the last setMinimumLogLevel; no step of any other  *)
(* operation changes the minimum level.                                    *)
C19_MinimumLevel ==
    /\ minLogLevel = info
    /\ [](\A t \in Threads :
            /\ (pc[t] = "done" /\ op[t].name = "setMinimumLogLevel") =>
                  /\ ret[t].kind = "level"
                  /\ ret[t].level = op[t].level
                  /\ minLogLevel = op[t].level
            /\ (pc[t] \in PastGate \cup {"lc_exit"}) =>
                  /\ lc[t].min = minLogLevel
                  /\ (pc[t] \in PastGate) =>
                        (lc[t].level >= minLogLevel \/ lc[t].level = fatal))
    /\ [][(minLogLevel' # minLogLevel) =>
              \E lv \in Levels : setMinimumLogLevel(Main, lv)]_vars

(* A warn call is at the end of logConcurrent after the gate compared it   *)
(* against critical, the level setMinimumLogLevel had set, and dropped it. *)
C19_Witness ==
    /\ pc[Main] = "lc_exit"
    /\ op[Main].name = "leveled"
    /\ lc[Main].level = warn
    /\ lc[Main].min = critical
    /\ minLogLevel = critical
    /\ out = <<>>

(* C20: for every severity L and minimum level M with M <= L, a leveled    *)
(* call at L with values v1..vn writes one "[LABEL] " decoration with the  *)
(* label configured for L, then the text of v1..vn in argument order.      *)
C20_Line ==
    \A t \in Threads :
        (pc[t] = "done" /\ op[t].name = "leveled"
            /\ minLogLevel <= op[t].level) =>
            /\ Len(out) = Len(lc[t].vals) + 1
            /\ out[1].kind = "label"
            /\ out[1].txt = "[" \o levelLabels[op[t].level] \o "] "
            /\ \A k \in 1..Len(lc[t].vals) :
                  /\ out[k + 1].kind = "value"
                  /\ out[k + 1].txt = lc[t].vals[k]
            /\ \A i \in 1..Len(out) :
                  /\ out[i].pre = (IF doColor THEN cols[op[t].level] ELSE "")
                  /\ out[i].post = (IF doColor THEN reset_col ELSE "")

(* debug("v1", "v2") has returned under minimum level debug with the label *)
(* setLogLabel configured for debug in front of the two values.            *)
C20_Witness ==
    /\ pc[Main] = "done"
    /\ op[Main].name = "leveled"
    /\ op[Main].level = debug
    /\ minLogLevel = debug
    /\ Len(out) = 3
    /\ out[1].txt = "[CUSTOM] "
    /\ out[2].txt = "v1"
    /\ out[3].txt = "v2"

----------------------------------------------------------------------------
(* Properties of the duration lines (SpecMiss).                            *)

(* The texts of the pieces in the sink, in the order they were written. *)
Texts == [i \in 1..Len(out) |-> out[i].txt]

(* Thread t is back from logDuration / logDurationPersistent at the        *)
(* default level (log) on a label that was in the registry.                *)
DurationLogged(t) ==
    /\ pc[t] = "done"
    /\ op[t].name \in {"logDuration", "logDurationPersistent"}
    /\ tm[t].found
    /\ lc[t].level = log

(* The values of a duration line: "<label>: " when the prefix is empty,    *)
(* else the prefix, then the count, the unit's suffix and a newline.       *)
DurationValues(t) ==
    {<<op[t].label, ": ", ToString(ret[t].count), ret[t].unit, "\n">>}
    \cup {<<p, ToString(ret[t].count), ret[t].unit, "\n">> :
            p \in Prefixes \ {""}}

(* C21, as stated: logDuration<T>(label) at the default level on a label   *)
(* in the registry writes, under every minimum level, one line made of the *)
(* prefix, the truncated duration, the suffix and a newline, and nothing   *)
(* else.                                                                   *)
C21_AsStated ==
    DurationLogged(Main) => Texts \in DurationValues(Main)

(* C21, amended: logDuration<T>(label) at the default level on a label in  *)
(* the registry writes, under every minimum level, one line made of the    *)
(* "[LABEL] " decoration of level log ("[OUT] " unless setLogLabel changed *)
(* it), the prefix ("<label>: " when the prefix argument is empty), the    *)
(* duration truncated to T, the suffix of T and a newline, and removes the *)
(* label; logDurationPersistent<T> writes the same line and leaves the     *)
(* label in the registry.                                                  *)
C21_DurationLine ==
    DurationLogged(Main) =>
        /\ Len(out) >= 1
        /\ out[1].kind = "label"
        /\ out[1].txt = "[" \o levelLabels[log] \o "] "
        /\ Tail(Texts) \in DurationValues(Main)
        /\ ret[Main].count = duration_cast(tm[Main].dur, ret[Main].unit)
        /\ \A i \in 1..Len(out) : out[i].id = lc[Main].id
        /\ (op[Main].name = "logDuration") =>
                op[Main].label \notin DOMAIN timePoints
        /\ (op[Main].name = "logDurationPersistent") =>
                op[Main].label \in DOMAIN timePoints

(* logDuration<microseconds>("a") has returned under minimum level log,    *)
(* 1500 ns after the start: the line "[OUT] a: 1us\n" is in the sink and   *)
(* the label is gone.                                                      *)
C21_Witness ==
    /\ DurationLogged(Main)
    /\ op[Main].name = "logDuration"
    /\ minLogLevel = log
    /\ Texts = <<"[OUT] ", "a", ": ", "1", "us", "\n">>
    /\ "a" \notin DOMAIN timePoints

----------------------------------------------------------------------------
(* Properties of calls at fatal (SpecGate).                                *)

(* C22: a leveled call at fatal is never dropped by the filtering gate: it *)
(* passes the gate and, once it has returned, its "[FATAL] " decoration    *)
(* and its values are in the sink, for every minimum level, log included.  *)
C22_FatalWrites ==
    \A t \in Threads :
        (op[t].name = "leveled" /\ op[t].level = fatal) =>
            /\ (pc[t] \notin {"lc_lock", "lc_gate"}) => lc[t].id # 0
            /\ (pc[t] = "done") =>
                  /\ out # <<>>
                  /\ out[1].txt = "[" \o levelLabels[fatal] \o "] "
                  /\ \A k \in 1..Len(lc[t].vals) :
                        /\ k + 1 <= Len(out)
                        /\ out[k + 1].txt = lc[t].vals[k]
                        /\ out[k + 1].lvl = fatal

(* fatal("v1") has returned under minimum level log, which is above fatal, *)
(* and "[FATAL] v1" is in the sink.                                        *)
C22_Witness ==
    /\ pc[Main] = "done"
    /\ op[Main].name = "leveled"
    /\ op[Main].level = fatal
    /\ minLogLevel = log
    /\ lc[Main].min = log
    /\ Len(out) = 2
    /\ out[1].txt = "[FATAL] "
    /\ out[2].txt = "v1"

----------------------------------------------------------------------------
(* Properties of a call the filtering gate rejects (SpecLevel).            *)

(* What the claim lists: the current-severity register, the sink target,   *)
(* the color flag, the label and color tables and the timer registry.      *)
Registers == <<currentLevel, outStream, doColor, levelLabels, cols, timePoints>>

(* C23: a leveled call that the filtering gate rejects has no side effect. *)
(* Its three steps are the lock, the gate and the unlock at scope exit:    *)
(* none of them changes the current-severity register, the sink target,    *)
(* the color flag, the label and color tables or the timer registry, none  *)
(* writes to the sink, and the caller's hold count of the StreamLock goes  *)
(* up by one at the lock, stays at the gate and comes down by one at the   *)
(* exit, so it is the same after the call as before it.                    *)
C23_RejectedNoEffect ==
    [][\A t \in Threads :
        /\ (pc[t] = "lc_lock" /\ pc'[t] = "lc_gate") =>
              /\ UNCHANGED <<Registers, out>>
              /\ mtx'.owner = t
              /\ mtx'.count = mtx.count + 1
        /\ (pc[t] = "lc_gate" /\ pc'[t] = "lc_exit") =>
              /\ UNCHANGED <<Registers, out, mtx>>
              /\ lc'[t].id = 0
        /\ (pc[t] = "lc_exit" /\ lc[t].id = 0 /\ pc'[t] # "lc_exit") =>
              /\ UNCHANGED <<Registers, out>>
              /\ mtx.owner = t
              /\ mtx'.count = mtx.count - 1
              /\ pc'[t] = lc[t].back]_vars

(* warn("v1") has returned rejected under minimum level critical, after a  *)
(* lookup miss had left the current-severity register at error and one     *)
(* hold of the StreamLock with the thread: both are as they were.          *)
C23_Witness ==
    /\ pc[Main] = "done"
    /\ op[Main].name = "leveled"
    /\ op[Main].level = warn
    /\ lc[Main].id = 0
    /\ minLogLevel = critical
    /\ currentLevel = error
    /\ mtx = [owner |-> Main, count |-> 1]
    /\ out = <<>>

----------------------------------------------------------------------------
(* Properties of the color escapes (SpecGate).                             *)

(* C24: with coloring enabled, a labelled call writes the color escape of  *)
(* its level, the "[LABEL] " decoration and the reset escape, and then the *)
(* text of its first value with no color escape in front of it; a call of  *)
(* the label-less entry point writes color escape, text and reset escape   *)
(* for each of its values.                                                 *)
C24_ColorScopes ==
    \A t \in Threads :
        (pc[t] = "done" /\ doColor /\ lc[t].id # 0) =>
            /\ (op[t].name = "leveled") =>
                  /\ out[1].kind = "label"
                  /\ out[1].pre = cols[op[t].level]
                  /\ out[1].post = reset_col
                  /\ out[2].kind = "value"
                  /\ out[2].txt = lc[t].vals[1]
                  /\ out[2].pre = ""
            /\ (op[t].name = "log") =>
                  \A i \in 1..Len(out) :
                      /\ out[i].kind = "value"
                      /\ out[i].pre = cols[log]
                      /\ out[i].post = reset_col

(* C25: while the color flag is off and no thread changes it, a log call   *)
(* writes no color escape and no reset escape: what it has written is the  *)
(* "[LABEL] " decoration (labelled calls only) followed by the texts of    *)
(* its values, in argument order.                                          *)
C25_PlainWhenColorOff ==
    \A t \in Threads :
        (~doColor /\ op[t].name \in {"leveled", "log"}) =>
            /\ \A i \in 1..Len(out) : out[i].pre = "" /\ out[i].post = ""
            /\ (pc[t] = "done" /\ lc[t].id # 0) =>
                  Texts = (IF op[t].name = "leveled"
                           THEN <<"[" \o levelLabels[op[t].level] \o "] ">>
                           ELSE <<>>) \o lc[t].vals

(* disableColor() was called and warn("v1", "v2") has returned: the sink   *)
(* holds "[WARNING] ", "v1", "v2" and no escape.                           *)
C25_Witness ==
    /\ ~doColor
    /\ pc[Main] = "done"
    /\ op[Main].name = "leveled"
    /\ op[Main].level = warn
    /\ Texts = <<"[WARNING] ", "v1", "v2">>
    /\ \A i \in 1..Len(out) : out[i].pre = "" /\ out[i].post = ""

----------------------------------------------------------------------------
(* Properties of the returned durations (SpecTimer).                       *)

(* C26: for a label present in the registry with elapsed time e >= 0 ns,   *)
(* endTimer<T> and getTimer<T> return e divided by the length of T in      *)
(* nanoseconds with the fraction discarded: the remainder e - count * T    *)
(* lies in 0 .. T - 1 (for hours the same is stated on whole seconds,      *)
(* 3600 to the hour); the count is never negative and never the invalid    *)
(* sentinel -1.                                                            *)
C26_Truncated ==
    \A t \in Threads :
        (pc[t] = "done" /\ op[t].name \in {"endTimer", "getTimer"}
            /\ tm[t].found) =>
            LET e == tm[t].dur
                count == ret[t].count
                T == ret[t].unit
            IN  /\ e >= 0
                /\ count >= 0
                /\ count # -1
                /\ (T = "ns") => count = e
                /\ (T = "us") => e - count * 1000 \in 0..999
                /\ (T = "ms") => e - count * 1000000 \in 0..999999
                /\ (T = "s") => e - count * 1000000000 \in 0..999999999
                /\ (T = "h") => (e \div 1000000000) - count * 3600 \in 0..3599

(* endTimer<microseconds>("a") has returned 1 for an elapsed time of       *)
(* 1500 ns: the 500 ns are discarded, not rounded up.                      *)
C26_Witness ==
    /\ pc[Main] = "done"
    /\ op[Main].name = "endTimer"
    /\ op[Main].label = "a"
    /\ tm[Main].found
    /\ tm[Main].dur = 1500
    /\ ret[Main].unit = "us"
    /\ ret[Main].count = 1

----------------------------------------------------------------------------
(* Properties of reopening the log file (SpecFile).                        *)

(* C27: initLogFile called while a log file is open closes that file       *)
(* before it opens the new one (at the open statement the old file is      *)
(* closed and the sink target is no longer on it) and, when the new file   *)
(* opens, returns with the one log file handle on the new path, the sink   *)
(* target set to it and the color flag off.                                *)
C27_Reopen ==
    \A t \in Threads :
        (op[t].name = "initLogFile" /\ op[t].file # "closed") =>
            /\ (pc[t] \in {"il_open", "dl_close"}) => outStream # "file"
            /\ (pc[t] = "il_open") => logFile = "closed"
            /\ InitSucceeded(t) =>
                  /\ logFile = FilePath(op[t].directory, op[t].filename)
                  /\ outStream = "file"
                  /\ ~doColor

(* initLogFile("logs", "Log.log") has returned with the new file open: it  *)
(* found "Log.log" open as the sink target with coloring switched on       *)
(* again.                                                                  *)
C27_Witness ==
    /\ InitSucceeded(Main)
    /\ op[Main].file = "Log.log"
    /\ op[Main].target = "file"
    /\ op[Main].color
    /\ logFile = "logs/Log.log"
    /\ outStream = "file"
    /\ ~doColor

----------------------------------------------------------------------------
(* Properties of the label and color tables (SpecTables).                  *)

(* C28: setLogLabel(level, text) and setLogColor(level, seq) change only   *)
(* the entry of the given level.  No step of either call changes the label *)
(* or color of another level, the other table, the minimum level, the      *)
(* color flag or the sink target; once the call has returned the entry is  *)
(* the given text; an entry changes in no other way; and a leveled call    *)
(* writes the label and color that the tables hold for its level, so every *)
(* later call at that level uses the new entry.                            *)
C28_OneEntry ==
    /\ [](\A t \in Threads :
            /\ (pc[t] = "done" /\ op[t].name = "setLogLabel") =>
                  levelLabels[op[t].level] = op[t].text
            /\ (pc[t] = "done" /\ op[t].name = "setLogColor") =>
                  cols[op[t].level] = op[t].text
            /\ (pc[t] = "done" /\ op[t].name = "leveled" /\ lc[t].id # 0) =>
                  /\ out[1].txt = "[" \o levelLabels[op[t].level] \o "] "
                  /\ doColor => out[1].pre = cols[op[t].level])
    /\ [][\A t \in Threads :
            /\ (op[t].name \in {"setLogLabel", "setLogColor"}
                    /\ op'[t] = op[t]) =>
                  /\ \A l \in Levels \ {op[t].level} :
                        /\ levelLabels'[l] = levelLabels[l]
                        /\ cols'[l] = cols[l]
                  /\ (op[t].name = "setLogLabel") => cols' = cols
                  /\ (op[t].name = "setLogColor") => levelLabels' = levelLabels
                  /\ UNCHANGED <<minLogLevel, doColor, outStream>>
            /\ \A l \in Levels :
                  /\ (levelLabels'[l] # levelLabels[l]) =>
                        /\ op[Main].name = "setLogLabel"
                        /\ op[Main].level = l
                        /\ levelLabels'[l] = op[Main].text
                  /\ (cols'[l] # cols[l]) =>
                        /\ op[Main].name = "setLogColor"
                        /\ op[Main].level = l
                        /\ cols'[l] = op[Main].text]_vars

(* After setLogLabel(warn, "CUSTOM") and setLogColor(warn, "ESC[35m"),     *)
(* warn("v1") has returned with the new label in the new color, while the  *)
(* entries of info are the defaults.                                       *)
C28_Witness ==
    /\ pc[Main] = "done"
    /\ op[Main].name = "leveled"
    /\ op[Main].level = warn
    /\ out # <<>>
    /\ out[1].txt = "[CUSTOM] "
    /\ out[1].pre = "ESC[35m"
    /\ levelLabels[info] = "INFO"
    /\ cols[info] = "ESC[32m"

----------------------------------------------------------------------------
(* Properties of concurrent calls at different levels (SpecLevels).        *)

(* C29: with several threads logging at different levels concurrently, the *)
(* label and the color written by a call at level L are the ones           *)
(* configured for L: every decoration in the sink is "[LABEL] " with the   *)
(* label of the level of the call that wrote it, and every piece is        *)
(* wrapped in the color of that level, also when a call at another level   *)
(* or a nested report of a timer miss runs at the same time.               *)
C29_OwnLabelAndColor ==
    \A i \in 1..Len(out) :
        /\ (out[i].kind = "label") =>
              out[i].txt = "[" \o levelLabels[out[i].lvl] \o "] "
        /\ out[i].pre = cols[out[i].lvl]
        /\ out[i].post = reset_col

(* Two calls were in progress together: warn("v1") of one thread wrote     *)
(* "[WARNING] " in the color of warn, and after it the report of a timer   *)
(* miss of the other thread wrote "[ERROR] " in the color of error.        *)
C29_Witness ==
    \E i, j \in 1..Len(out) :
        /\ i < j
        /\ out[i].th # out[j].th
        /\ out[i].lvl = warn
        /\ out[i].txt = "[WARNING] "
        /\ out[i].pre = cols[warn]
        /\ out[j].what = "miss"
        /\ out[j].txt = "[ERROR] "
        /\ out[j].pre = cols[error]

----------------------------------------------------------------------------
(* Properties of the sink target during a call (Spec).                     *)

(* C30: all pieces written by one log call go to the same sink target,     *)
(* also when another thread calls setOutStream, initLogFile or dumpLogFile *)
(* while the call is in progress.                                          *)
C30_OneTargetPerCall ==
    \A i, j \in 1..Len(out) :
        (out[i].id = out[j].id) => out[i].tgt = out[j].tgt

----------------------------------------------------------------------------
(* Properties of the color flag during a call (SpecColor).                 *)

(* C31: within one log call either every written piece is wrapped in a     *)
(* color escape and a reset escape or none is, also when another thread    *)
(* calls enableColor or disableColor while the call is in progress.        *)
C31_AllOrNoneColored ==
    \A i, j \in 1..Len(out) :
        (out[i].id = out[j].id) =>
            \/ /\ out[i].pre # "" /\ out[i].post = reset_col
               /\ out[j].pre # "" /\ out[j].post = reset_col
            \/ /\ out[i].pre = "" /\ out[i].post = ""
               /\ out[j].pre = "" /\ out[j].post = ""

----------------------------------------------------------------------------
(* Properties of the sink target and the log file (Spec).                  *)

(* C32: in every reachable state, if the sink target is the log file then  *)
(* the log file is open: output is never directed at a closed file.        *)
C32_FileTargetIsOpen ==
    outStream = "file" => logFile # "closed"

----------------------------------------------------------------------------
(* Properties of the ownership of the StreamLock (SpecLevels).             *)

(* Thread t is between a lockStream() it has returned from and the end of  *)
(* the scope that made the call.                                           *)
InLockedScope(t) ==
    pc[t] \in {"lc_gate", "print_if", "print_write", "pwl_if", "pwl_write",
               "lc_exit", "tm_find", "tm_exit", "st_insert", "st_exit",
               "set_body", "set_exit"}

(* Thread t is at the end of such a scope, where unlockStream() runs. *)
AtUnlock(t) == pc[t] \in {"lc_exit", "tm_exit", "st_exit", "set_exit"}

(* C33: in every reachable state at most one thread owns the StreamLock:   *)
(* a thread inside a locked scope is the owner of the mutex, so two        *)
(* threads are never inside locked scopes together; and unlockStream       *)
(* unlocks the mutex only when the calling thread owns it: whenever a      *)
(* thread runs unlockStream with mtx_engaged set, and whenever a step of a *)
(* thread takes a hold off the mutex, that thread is the owner.            *)
C33_OwnerUnlocks ==
    /\ [](\A t \in Threads :
            /\ InLockedScope(t) => (mtx.owner = t /\ mtx.count >= 1)
            /\ (mtx.owner = NoThread) <=> (mtx.count = 0)
            /\ \A u \in Threads \ {t} : ~(InLockedScope(t) /\ InLockedScope(u)))
    /\ [][\A t \in Threads :
            /\ (AtUnlock(t) /\ pc'[t] # pc[t] /\ mtx_engaged) =>
                  /\ mtx.owner = t
                  /\ mtx'.count = mtx.count - 1
            /\ (pc'[t] # pc[t] /\ mtx'.count < mtx.count) =>
                  (mtx.owner = t /\ AtUnlock(t))]_vars

(* The nested error(...) of a timer miss has cleared mtx_engaged: thread   *)
(* t1 is at the end of endTimer's scope and still owns the mutex once,     *)
(* while thread t2 waits in lockStream.                                    *)
C33_Witness ==
    /\ pc["t1"] = "tm_exit"
    /\ lc["t1"].what = "miss"
    /\ ~mtx_engaged
    /\ mtx = [owner |-> "t1", count |-> 1]
    /\ pc["t2"] = "lc_lock"

====
